---- MODULE Spec2Model ----
(***************************************************************************)
(* Interval algebra of intervals-rs: bounds, half-bounded intervals and    *)
(* two-sided intervals (src/src/interval.rs, half.rs, inclusion.rs).       *)
(*                                                                         *)
(* A bound is a record [limit, bounding].  The field `bounding` is the     *)
(* Rust value of type B: one of the unit structs Inclusive / Exclusive, or *)
(* a variant of the runtime enum BoundType.  The side of a half-bounded    *)
(* value (PhantomData<Left> / PhantomData<Right>) carries no data and is   *)
(* passed to the operators as the string "Left" or "Right".                *)
(* Option<X> is a sequence of length 0 (None) or 1 (Some).                 *)
(***************************************************************************)
EXTENDS Integers, Sequences, FiniteSets, TLC

VARIABLES a, b, res

vars == <<a, b, res>>

\* Largest limit a bound is built with; scalars are the integers 0..MaxLimit.
MaxLimit == 2

\* Longest item sequence handed to enclosure_of_items.
MaxItems == 2

Limits == 0..MaxLimit

\* Every value a membership test is asked about (one beyond each end).
Points == (0 - 1)..(MaxLimit + 1)

\* Width of the integer type T (i8, i32, ... scaled down); T holds IntMin..IntMax.
IntBits == 5

IntMin == 0 - 2^(IntBits - 1)

IntMax == 2^(IntBits - 1) - 1

\* Two's-complement reduction of an exact result to T.
wrap(v) == ((v - IntMin) % 2^IntBits) + IntMin

\* T's `+` and `-`: the value a release build computes; a debug build panics
\* exactly when that value differs from the exact one.
add(x, y) == wrap(x + y)

sub(x, y) == wrap(x - y)

\* T::one()
one == 1

StaticBoundings == {"Inclusive", "Exclusive"}

EnumBoundings == {"BoundType::Inclusive", "BoundType::Exclusive"}

Boundings == StaticBoundings \cup EnumBoundings

None == <<>>

Some(x) == <<x>>

\* Bound { limit, bounding }, built by Inclusive.at(t) / Exclusive.at(t) / BoundType::X.at(t).
at(bounding, t) == [limit |-> t, bounding |-> bounding]

\* Whether the boundary admits its own limit.
IsInclusive(bounding) == bounding \in {"Inclusive", "BoundType::Inclusive"}

\* Whether the type parameter B is the runtime enum.
IsEnum(bounding) == bounding \in EnumBoundings

(***************************************************************************)
(* Boundary kinds (inclusion.rs)                                           *)
(***************************************************************************)

\* Boundary::less(&self, this, t): does a left boundary at `this` admit t.
less(bounding, this, t) ==
    CASE bounding = "Inclusive" -> this <= t
      [] bounding = "Exclusive" -> this < t
      [] bounding = "BoundType::Inclusive" -> this <= t
      [] bounding = "BoundType::Exclusive" -> this < t

\* greater whose runtime Exclusive variant admits the limit itself.
greater_enum_exclusive_admits_limit(bounding, this, t) ==
    CASE bounding = "Inclusive" -> t <= this
      [] bounding = "Exclusive" -> t < this
      [] bounding = "BoundType::Inclusive" -> t <= this
      [] bounding = "BoundType::Exclusive" -> t <= this

\* Boundary::greater(&self, this, t): does a right boundary at `this` admit t.
greater(bounding, this, t) ==
    CASE bounding = "Inclusive" -> t <= this
      [] bounding = "Exclusive" -> t < this
      [] bounding = "BoundType::Inclusive" -> t <= this
      [] bounding = "BoundType::Exclusive" -> t < this

\* Flip that treats the runtime enum as its own flip and leaves its variant alone.
flip_bounding_enum_unchanged(bounding) ==
    CASE bounding = "Inclusive" -> "Exclusive"
      [] bounding = "Exclusive" -> "Inclusive"
      [] OTHER -> bounding

\* Flip for Inclusive, Exclusive and BoundType.
flip_bounding(bounding) ==
    CASE bounding = "Inclusive" -> "Exclusive"
      [] bounding = "Exclusive" -> "Inclusive"
      [] bounding = "BoundType::Inclusive" -> "BoundType::Exclusive"
      [] bounding = "BoundType::Exclusive" -> "BoundType::Inclusive"

\* Flip for Left / Right.
flip_side(side) == IF side = "Left" THEN "Right" ELSE "Left"

\* IntoGeneral for Inclusive / Exclusive (the enum is already general).
bounding_into_general(bounding) ==
    CASE bounding = "Inclusive" -> "BoundType::Inclusive"
      [] bounding = "Exclusive" -> "BoundType::Exclusive"
      [] OTHER -> bounding

\* SideInclusion ordering whose Right table is a copy of the Left one.
side_inclusion_cmp_right_as_left(side, lhs, rhs) ==
    IF ~IsEnum(lhs) \/ ~IsEnum(rhs) THEN 0
    ELSE CASE lhs = "BoundType::Inclusive" /\ rhs = "BoundType::Inclusive" -> 0
           [] lhs = "BoundType::Inclusive" /\ rhs = "BoundType::Exclusive" -> 0 - 1
           [] lhs = "BoundType::Exclusive" /\ rhs = "BoundType::Inclusive" -> 1
           [] lhs = "BoundType::Exclusive" /\ rhs = "BoundType::Exclusive" -> 0

\* Ord for SideInclusion<B, S>: -1 Less, 0 Equal, 1 Greater.
side_inclusion_cmp(side, lhs, rhs) ==
    IF ~IsEnum(lhs) \/ ~IsEnum(rhs) THEN 0
    ELSE IF side = "Left"
    THEN CASE lhs = "BoundType::Inclusive" /\ rhs = "BoundType::Inclusive" -> 0
           [] lhs = "BoundType::Inclusive" /\ rhs = "BoundType::Exclusive" -> 0 - 1
           [] lhs = "BoundType::Exclusive" /\ rhs = "BoundType::Inclusive" -> 1
           [] lhs = "BoundType::Exclusive" /\ rhs = "BoundType::Exclusive" -> 0
    ELSE CASE lhs = "BoundType::Inclusive" /\ rhs = "BoundType::Inclusive" -> 0
           [] lhs = "BoundType::Inclusive" /\ rhs = "BoundType::Exclusive" -> 1
           [] lhs = "BoundType::Exclusive" /\ rhs = "BoundType::Inclusive" -> 0 - 1
           [] lhs = "BoundType::Exclusive" /\ rhs = "BoundType::Exclusive" -> 0

(***************************************************************************)
(* Half-bounded intervals (half.rs)                                        *)
(***************************************************************************)

\* Ord for HalfBounded: lexicographic on ordering_key() = (limit, ordered bounding).
half_cmp(side, x, y) ==
    IF x.limit < y.limit THEN 0 - 1
    ELSE IF x.limit > y.limit THEN 1
    ELSE side_inclusion_cmp(side, x.bounding, y.bounding)

\* Ord::max(self, other): the second argument unless the first is greater.
half_max(side, x, y) == IF half_cmp(side, x, y) = 1 THEN x ELSE y

\* Ord::min(self, other): the first argument unless it is greater.
half_min(side, x, y) == IF half_cmp(side, x, y) = 1 THEN y ELSE x

\* Flip for HalfBounded that changes the side only and keeps the bounding.
half_flip_keeps_bounding(h) == [limit |-> h.limit, bounding |-> h.bounding]

\* Flip for HalfBounded: same limit, flipped bounding (the side flips in the type).
half_flip(h) == [limit |-> h.limit, bounding |-> flip_bounding(h.bounding)]

\* IntoGeneral for HalfBounded.
half_into_general(h) == [limit |-> h.limit, bounding |-> bounding_into_general(h.bounding)]

left_includes(x, other) == x.limit <= other.limit

left_contains(x, t) == less(x.bounding, x.limit, t)

\* intersection of left half-lines that keeps the less restrictive one.
left_intersection_by_min(x, other) == half_min("Left", x, other)

left_intersection(x, other) == half_max("Left", x, other)

left_union(x, other) == half_min("Left", x, other)

right_includes(x, other) == other.limit <= x.limit

right_contains(x, t) == greater(x.bounding, x.limit, t)

right_intersection(x, other) == half_min("Right", x, other)

\* union of right half-lines copied from the left side: keeps the lesser bound.
right_union_by_min(x, other) == half_min("Right", x, other)

right_union(x, other) == half_max("Right", x, other)

\* contains of a half-bounded value of the given side.
half_contains(side, h, t) == IF side = "Left" THEN left_contains(h, t) ELSE right_contains(h, t)

\* Minimum for LeftBounded whose runtime Exclusive arm forgets the + 1.
left_minimum_enum_exclusive_is_limit(h) ==
    CASE h.bounding = "Inclusive" -> h.limit
      [] h.bounding = "Exclusive" -> add(h.limit, one)
      [] h.bounding = "BoundType::Inclusive" -> h.limit
      [] h.bounding = "BoundType::Exclusive" -> h.limit

\* Minimum for LeftBounded<T, Inclusive>, <T, Exclusive> and <T, Bounding>.
left_minimum(h) ==
    CASE h.bounding = "Inclusive" -> h.limit
      [] h.bounding = "Exclusive" -> add(h.limit, one)
      [] h.bounding = "BoundType::Inclusive" -> h.limit
      [] h.bounding = "BoundType::Exclusive" -> add(h.limit, one)

\* Maximum for RightBounded whose static Exclusive arm forgets the - 1.
right_maximum_exclusive_is_limit(h) ==
    CASE h.bounding = "Inclusive" -> h.limit
      [] h.bounding = "Exclusive" -> h.limit
      [] h.bounding = "BoundType::Inclusive" -> h.limit
      [] h.bounding = "BoundType::Exclusive" -> sub(h.limit, one)

\* Maximum for RightBounded<T, Inclusive>, <T, Exclusive> and <T, Bounding>.
right_maximum(h) ==
    CASE h.bounding = "Inclusive" -> h.limit
      [] h.bounding = "Exclusive" -> sub(h.limit, one)
      [] h.bounding = "BoundType::Inclusive" -> h.limit
      [] h.bounding = "BoundType::Exclusive" -> sub(h.limit, one)

\* LeftBounded / RightBounded closure and interior: keep the limit, force the kind.
half_closure(h) == [limit |-> h.limit, bounding |-> "Inclusive"]

half_interior(h) == [limit |-> h.limit, bounding |-> "Exclusive"]

(***************************************************************************)
(* Two-sided intervals (interval.rs): records [left, right]                *)
(***************************************************************************)

\* The static type parameter of a bounding value: Inclusive, Exclusive or BoundType.
TypeOf(bounding) == IF IsEnum(bounding) THEN "BoundType" ELSE bounding

\* Two intervals have the same Rust type Interval<T, L, R>.
SameType(x, y) ==
    /\ TypeOf(x.left.bounding) = TypeOf(y.left.bounding)
    /\ TypeOf(x.right.bounding) = TypeOf(y.right.bounding)

\* is_valid_interval that forgets the check against the right boundary.
is_valid_interval_left_only(left, right) == left_contains(left, right.limit)

\* is_valid_interval that compares the limits and ignores the boundary kinds.
is_valid_interval_limits_only(left, right) == left.limit <= right.limit

\* is_valid_interval that forgets the check against the left boundary.
is_valid_interval_right_only(left, right) == right_contains(right, left.limit)

is_valid_interval(left, right) ==
    left_contains(left, right.limit) /\ right_contains(right, left.limit)

new_(left, right) ==
    IF is_valid_interval(left, right) THEN Some([left |-> left, right |-> right]) ELSE None

new(left, right) == new_(left, right)

\* Bound::to
to(left, right) == new(left, right)

\* PartialEq for Interval: both half-bounded values equal (limit and bounding).
interval_eq(x, other) == x.left = other.left /\ x.right = other.right

contains(x, t) == left_contains(x.left, t) /\ right_contains(x.right, t)

includes(x, other) ==
    left_includes(x.left, other.left) /\ right_includes(x.right, other.right)

\* overlaps that takes the larger of the two right boundaries.
overlaps_max_of_rights(x, other) ==
    LET left == half_max("Left", x.left, other.left)
        right == half_max("Right", x.right, other.right)
    IN  is_valid_interval(left, right)

\* std::cmp::max / std::cmp::min by reference, then the validity predicate.
overlaps(x, other) ==
    LET left == half_max("Left", x.left, other.left)
        right == half_min("Right", x.right, other.right)
    IN  is_valid_interval(left, right)

intersection(x, other) ==
    new_(left_intersection(x.left, other.left), right_intersection(x.right, other.right))

\* enclosure that combines the halves as intersection does, without validating.
enclosure_by_intersection(x, other) ==
    [left |-> left_intersection(x.left, other.left),
     right |-> right_intersection(x.right, other.right)]

\* enclosure that widens runtime kinds to Inclusive instead of keeping the chosen bound.
enclosure_widened_to_inclusive(x, other) ==
    LET widen(h) == [limit |-> h.limit,
                     bounding |-> IF IsEnum(h.bounding) THEN "BoundType::Inclusive"
                                  ELSE h.bounding]
    IN  [left |-> widen(left_union(x.left, other.left)),
         right |-> widen(right_union(x.right, other.right))]

enclosure(x, other) ==
    [left |-> left_union(x.left, other.left), right |-> right_union(x.right, other.right)]

\* gap that tries only the orientation with x on the left.
gap_first_orientation_only(x, other) == new_(half_flip(x.right), half_flip(other.left))

\* gap built from the bounds as they are, without flipping them.
gap_without_flip(x, other) ==
    LET first == new_(x.right, other.left)
        second == new_(other.right, x.left)
    IN  IF first # None THEN first ELSE second

\* Option::or: the first construction when it is Some, else the second.
gap(x, other) ==
    LET first == new_(half_flip(x.right), half_flip(other.left))
        second == new_(half_flip(other.right), half_flip(x.left))
    IN  IF first # None THEN first ELSE second

\* IntervalUnion { gap, enclosure }
union(x, other) == [gap |-> gap(x, other), enclosure |-> enclosure(x, other)]

\* IntervalUnion iteration that closes the first interval with the far side of the gap.
into_iter_far_side_of_gap(u) ==
    IF u.gap # None
    THEN LET g == u.gap[1]
             first == [left |-> u.enclosure.left, right |-> half_flip(g.right)]
             second == [left |-> half_flip(g.left), right |-> u.enclosure.right]
         IN  <<first, second>>
    ELSE <<u.enclosure>>

\* IntoIterator for IntervalUnion
into_iter(u) ==
    IF u.gap # None
    THEN LET g == u.gap[1]
             first == [left |-> u.enclosure.left, right |-> half_flip(g.left)]
             second == [left |-> half_flip(g.right), right |-> u.enclosure.right]
         IN  <<first, second>>
    ELSE <<u.enclosure>>

\* interior built like closure, as a struct literal that skips the validity check.
interior_unchecked(x) == Some([left |-> half_interior(x.left), right |-> half_interior(x.right)])

closure(x) == [left |-> half_closure(x.left), right |-> half_closure(x.right)]

interior(x) == new_(half_interior(x.left), half_interior(x.right))

into_general(x) ==
    [left |-> half_into_general(x.left), right |-> half_into_general(x.right)]

\* From<T> for Interval<T, Inclusive>: the single-point interval [t, t].
from_point(t) == new(at("Inclusive", t), at("Inclusive", t))[1]

\* Minimum / Maximum for Interval
minimum(x) == left_minimum(x.left)

maximum(x) == right_maximum(x.right)

\* Interval::min / Interval::max
min(x) == left_minimum(x.left)

max(x) == right_maximum(x.right)

\* Interval::lower_bound / Interval::upper_bound: the flipped half, on the other side.
lower_bound(x) == [side |-> flip_side("Left"), bound |-> half_flip(x.left)]

upper_bound(x) == [side |-> flip_side("Right"), bound |-> half_flip(x.right)]

\* RangeInclusive lo..=hi as the sequence it yields (empty when lo > hi).
range_inclusive(lo, hi) == [i \in 1..(hi - lo + 1) |-> lo + i - 1]

\* IntoIterator for Interval: self.minimum()..=self.maximum()
interval_into_iter(x) == range_inclusive(minimum(x), maximum(x))

\* RangeBounds for Interval (core.rs): std::ops::Bound values as <<variant, value>>.
start_bound(x) == <<"Included", x.left.limit>>

end_bound(x) == <<"Excluded", x.right.limit>>

\* RangeBounds::contains, the provided method: t within (start_bound, end_bound).
range_contains(start, end, t) ==
    /\ CASE start[1] = "Included" -> start[2] <= t
         [] start[1] = "Excluded" -> start[2] < t
         [] start[1] = "Unbounded" -> TRUE
    /\ CASE end[1] = "Included" -> t <= end[2]
         [] end[1] = "Excluded" -> t < end[2]
         [] end[1] = "Unbounded" -> TRUE

\* A floating-point scalar: NaN, or a number (which NotNan<T> orders like the integers).
NaN == [nan |-> TRUE, val |-> 0]

Float(v) == [nan |-> FALSE, val |-> v]

\* Result<V, E>
Ok(v) == [is_ok |-> TRUE, err |-> "", val |-> v]

Err(e) == [is_ok |-> FALSE, err |-> e, val |-> None]

\* Scalar conversion into NotNan<T>: NotNan::new
scalar_try_from(f) == IF f.nan THEN Err("FloatIsNan") ELSE Ok(f.val)

\* try_new that takes a NaN right limit for an empty interval instead of an error.
try_new_nan_right_is_empty(left, right) ==
    LET l == scalar_try_from(left.limit)
    IN  IF ~l.is_ok THEN Err(l.err)
        ELSE IF right.limit.nan THEN Ok(None)
        ELSE Ok(new(at(left.bounding, l.val), at(right.bounding, right.limit.val)))

\* Interval::try_new: each `?` returns the conversion's error at once, left first.
try_new(left, right) ==
    LET l == scalar_try_from(left.limit)
    IN  IF ~l.is_ok THEN Err(l.err)
        ELSE LET r == scalar_try_from(right.limit)
             IN  IF ~r.is_ok THEN Err(r.err)
                 ELSE Ok(new(at(left.bounding, l.val), at(right.bounding, r.val)))

float_new(left, right) == try_new(left, right)

RECURSIVE fold_enclosure(_, _, _)
\* Iterator::fold(first, |acc, item| acc.enclosure(item.into())) from position k on.
fold_enclosure(acc, items, k) ==
    IF k > Len(items) THEN acc
    ELSE fold_enclosure(enclosure(acc, from_point(items[k])), items, k + 1)

\* enclosure_of_items whose fold starts one item too late.
enclosure_of_items_skipping_second(items) ==
    IF Len(items) = 0 THEN None
    ELSE Some(fold_enclosure(from_point(items[1]), items, 3))

enclosure_of_items(items) ==
    IF Len(items) = 0 THEN None
    ELSE Some(fold_enclosure(from_point(items[1]), items, 2))

(***************************************************************************)
(* The state machine: two interval values a caller holds (a, b) and the    *)
(* outcome of the operation it called last (res).  While res.op # "none"   *)
(* the registers a and b still hold the arguments of that call.            *)
(***************************************************************************)

\* Bounds a caller may hand to Interval::new.
Bounds == {at(k, t) : k \in Boundings, t \in Limits}

\* Pairs of bounds whose type parameters L and R are both static or both BoundType.
BoundPairs == {p \in Bounds \X Bounds : IsEnum(p[1].bounding) = IsEnum(p[2].bounding)}

\* Every interval Interval::new accepts from those bounds.
Accepted == {new(p[1], p[2])[1] : p \in {q \in BoundPairs : new(q[1], q[2]) # None}}

ItemSeqs == UNION {[1..n -> Limits] : n \in 0..MaxItems}

\* ans is the answer of a query: a bool, a scalar, an Ordering, a half or a sequence.
Idle == [op |-> "none", arg |-> <<>>, out |-> <<>>, ans |-> FALSE]

Result(op, arg, out, ans) == [op |-> op, arg |-> arg, out |-> out, ans |-> ans]

\* Both registers start as the single-point interval [0, 0].
Init ==
    /\ a = from_point(0)
    /\ b = from_point(0)
    /\ res = Idle

New ==
    /\ res.op = "none"
    /\ \E p \in BoundPairs :
         res' = Result("new", <<p[1], p[2]>>, new(p[1], p[2]), FALSE)
    /\ UNCHANGED <<a, b>>

FromPoint ==
    /\ res.op = "none"
    /\ \E t \in Limits : res' = Result("from", <<t>>, <<from_point(t)>>, FALSE)
    /\ UNCHANGED <<a, b>>

Contains ==
    /\ res.op = "none"
    /\ \E t \in Points : res' = Result("contains", <<t>>, <<>>, contains(a, t))
    /\ UNCHANGED <<a, b>>

Includes ==
    /\ res.op = "none"
    /\ SameType(a, b)
    /\ res' = Result("includes", <<>>, <<>>, includes(a, b))
    /\ UNCHANGED <<a, b>>

Overlaps ==
    /\ res.op = "none"
    /\ SameType(a, b)
    /\ res' = Result("overlaps", <<>>, <<>>, overlaps(a, b))
    /\ UNCHANGED <<a, b>>

Intersection ==
    /\ res.op = "none"
    /\ SameType(a, b)
    /\ res' = Result("intersection", <<>>, intersection(a, b), FALSE)
    /\ UNCHANGED <<a, b>>

Enclosure ==
    /\ res.op = "none"
    /\ SameType(a, b)
    /\ res' = Result("enclosure", <<>>, <<enclosure(a, b)>>, FALSE)
    /\ UNCHANGED <<a, b>>

Gap ==
    /\ res.op = "none"
    /\ SameType(a, b)
    /\ res' = Result("gap", <<>>, gap(a, b), FALSE)
    /\ UNCHANGED <<a, b>>

\* a.union(b).into_iter().collect(); arg keeps the IntervalUnion that was iterated.
Union ==
    /\ res.op = "none"
    /\ SameType(a, b)
    /\ res' = Result("union", <<union(a, b)>>, into_iter(union(a, b)), FALSE)
    /\ UNCHANGED <<a, b>>

Closure ==
    /\ res.op = "none"
    /\ res' = Result("closure", <<>>, <<closure(a)>>, FALSE)
    /\ UNCHANGED <<a, b>>

Interior ==
    /\ res.op = "none"
    /\ res' = Result("interior", <<>>, interior(a), FALSE)
    /\ UNCHANGED <<a, b>>

IntoGeneral ==
    /\ res.op = "none"
    /\ res' = Result("into_general", <<>>, <<into_general(a)>>, FALSE)
    /\ UNCHANGED <<a, b>>

EnclosureOfItems ==
    /\ res.op = "none"
    /\ \E items \in ItemSeqs :
         res' = Result("enclosure_of_items", items, enclosure_of_items(items), FALSE)
    /\ UNCHANGED <<a, b>>

Minimum ==
    /\ res.op = "none"
    /\ res' = Result("minimum", <<>>, <<>>, min(a))
    /\ UNCHANGED <<a, b>>

Maximum ==
    /\ res.op = "none"
    /\ res' = Result("maximum", <<>>, <<>>, max(a))
    /\ UNCHANGED <<a, b>>

\* a.into_iter().collect()
Iterate ==
    /\ res.op = "none"
    /\ res' = Result("into_iter", <<>>, <<>>, interval_into_iter(a))
    /\ UNCHANGED <<a, b>>

\* a.left() < b.left() or a.right() < b.right(): ans is the Ordering (-1, 0, 1).
Compare ==
    /\ res.op = "none"
    /\ SameType(a, b)
    /\ \/ res' = Result("cmp", <<"Left", a.left, b.left>>, <<>>,
                        half_cmp("Left", a.left, b.left))
       \/ res' = Result("cmp", <<"Right", a.right, b.right>>, <<>>,
                        half_cmp("Right", a.right, b.right))
    /\ UNCHANGED <<a, b>>

\* a.lower_bound() or a.upper_bound(): arg is the half that was flipped, with its side.
Flip ==
    /\ res.op = "none"
    /\ \/ res' = Result("flip", <<"Left", a.left>>, <<>>, lower_bound(a))
       \/ res' = Result("flip", <<"Right", a.right>>, <<>>, upper_bound(a))
    /\ UNCHANGED <<a, b>>

\* a.left().intersection(b.left()) or a.right().intersection(b.right())
HalfIntersection ==
    /\ res.op = "none"
    /\ SameType(a, b)
    /\ \/ res' = Result("half_intersection", <<"Left", a.left, b.left>>, <<>>,
                        left_intersection(a.left, b.left))
       \/ res' = Result("half_intersection", <<"Right", a.right, b.right>>, <<>>,
                        right_intersection(a.right, b.right))
    /\ UNCHANGED <<a, b>>

\* a.left().union(b.left()) or a.right().union(b.right())
HalfUnion ==
    /\ res.op = "none"
    /\ SameType(a, b)
    /\ \/ res' = Result("half_union", <<"Left", a.left, b.left>>, <<>>,
                        left_union(a.left, b.left))
       \/ res' = Result("half_union", <<"Right", a.right, b.right>>, <<>>,
                        right_union(a.right, b.right))
    /\ UNCHANGED <<a, b>>

\* (a.start_bound(), a.end_bound())
RangeBoundsView ==
    /\ res.op = "none"
    /\ res' = Result("range_bounds", <<>>, <<>>, [start |-> start_bound(a), end |-> end_bound(a)])
    /\ UNCHANGED <<a, b>>

\* Limits a caller may hand to the float constructors.
FloatLimits == {NaN} \cup {Float(v) : v \in Limits}

\* Pairs of raw float bounds whose kinds are both static or both BoundType.
FloatBoundPairs ==
    {<<at(k[1], l), at(k[2], r)>> :
        k \in {p \in Boundings \X Boundings : IsEnum(p[1]) = IsEnum(p[2])},
        l \in FloatLimits, r \in FloatLimits}

\* out holds the interval of Ok(Some(_)), ans the whole Result.
TryNew ==
    /\ res.op = "none"
    /\ \E p \in FloatBoundPairs :
           LET r == try_new(p[1], p[2])
           IN  res' = Result("try_new", p, r.val, r)
    /\ UNCHANGED <<a, b>>

FloatNew ==
    /\ res.op = "none"
    /\ \E p \in FloatBoundPairs :
           LET r == float_new(p[1], p[2])
           IN  res' = Result("float_new", p, r.val, r)
    /\ UNCHANGED <<a, b>>

\* The caller keeps one of the intervals the call produced.
StoreA ==
    /\ res.op # "none"
    /\ \E k \in 1..Len(res.out) : a' = res.out[k]
    /\ res' = Idle
    /\ UNCHANGED b

StoreB ==
    /\ res.op # "none"
    /\ \E k \in 1..Len(res.out) : b' = res.out[k]
    /\ res' = Idle
    /\ UNCHANGED a

\* The caller drops the outcome.
Discard ==
    /\ res.op # "none"
    /\ res' = Idle
    /\ UNCHANGED <<a, b>>

Next ==
    \/ New
    \/ FromPoint
    \/ Contains
    \/ Includes
    \/ Overlaps
    \/ Intersection
    \/ Enclosure
    \/ Gap
    \/ Union
    \/ Closure
    \/ Interior
    \/ IntoGeneral
    \/ EnclosureOfItems
    \/ Minimum
    \/ Maximum
    \/ Iterate
    \/ Compare
    \/ Flip
    \/ HalfIntersection
    \/ HalfUnion
    \/ RangeBoundsView
    \/ StoreA
    \/ StoreB
    \/ Discard

Spec == Init /\ [][Next]_vars

\* The float constructors alone, with the caller keeping what they return.
NextFloat ==
    \/ TryNew
    \/ FloatNew
    \/ StoreA
    \/ Discard

SpecFloat == Init /\ [][NextFloat]_vars

\* Every interval Interval::new accepts over the whole of the integer type T.
IntAccepted ==
    {new(p[1], p[2])[1] :
        p \in {q \in {<<at(k[1], l), at(k[2], r)>> :
                         k \in {c \in Boundings \X Boundings : IsEnum(c[1]) = IsEnum(c[2])},
                         l \in IntMin..IntMax, r \in IntMin..IntMax} :
                  new(q[1], q[2]) # None}}

\* Any interval of T, up to the ends of T's range.
InitInt ==
    /\ a \in IntAccepted
    /\ b = a
    /\ res = Idle

NextInt ==
    \/ Minimum
    \/ Maximum
    \/ Discard

SpecInt == InitInt /\ [][NextInt]_vars

(***************************************************************************)
(* Properties                                                              *)
(***************************************************************************)

\* The validity predicate of interval.rs written on an interval value.
IsValid(x) == left_contains(x.left, x.right.limit) /\ right_contains(x.right, x.left.limit)

\* C1: every interval value the caller holds or an operation returned (from new,
\* intersection, enclosure, gap, union iteration, closure, interior, into_general,
\* enclosure_of_items, point conversion) satisfies
\* left.contains(right.limit) /\ right.contains(left.limit).
C1_EveryIntervalIsValid ==
    /\ IsValid(a)
    /\ IsValid(b)
    /\ \A k \in 1..Len(res.out) : IsValid(res.out[k])

\* C1 witness: union iteration rebuilt two intervals around a gap.
C1_Witness_UnionYieldedTwo == res.op = "union" /\ Len(res.out) = 2

\* C2: Interval::new / Bound::to succeeds exactly when lower.limit < upper.limit, or
\* the limits are equal and both bounds are Inclusive; it then holds the two bounds.
C2_NewSucceedsIffLimitsOrdered ==
    /\ res.op = "new" =>
         LET l == res.arg[1]
             r == res.arg[2]
         IN  /\ (res.out # None) <=>
                    \/ l.limit < r.limit
                    \/ l.limit = r.limit /\ IsInclusive(l.bounding) /\ IsInclusive(r.bounding)
             /\ res.out # None => res.out[1] = [left |-> l, right |-> r]
             /\ to(l, r) = res.out
    /\ to(at("Inclusive", 3), at("Exclusive", 3)) = None
    /\ to(at("Inclusive", 3), at("Exclusive", 0)) = None
    /\ to(at("Inclusive", 3), at("Inclusive", 3))
           = Some([left |-> at("Inclusive", 3), right |-> at("Inclusive", 3)])

\* C2 witness: new refused equal limits because the right bound is not Inclusive.
C2_Witness_TieRefused ==
    /\ res.op = "new"
    /\ res.out = None
    /\ res.arg[1].limit = res.arg[2].limit
    /\ IsInclusive(res.arg[1].bounding)

\* C3 (as claimed): every interval new accepts over the integers contains at least
\* one integer.
C3_AcceptedIntervalHasAMember ==
    (res.op = "new" /\ res.out # None) => \E t \in Points : contains(res.out[1], t)

\* The membership rule of the claim, written on the limits.
Admits(x, t) ==
    /\ IF IsInclusive(x.left.bounding) THEN x.left.limit <= t ELSE x.left.limit < t
    /\ IF IsInclusive(x.right.bounding) THEN t <= x.right.limit ELSE t < x.right.limit

\* C4: contains(t) is left.contains(t) /\ right.contains(t): Inclusive admits the
\* limit, Exclusive does not, on either side, for static and runtime kinds alike;
\* [0,3) contains exactly 0, 1, 2.
C4_ContainsIsBothHalves ==
    /\ res.op = "contains" =>
         /\ res.ans = Admits(a, res.arg[1])
         /\ res.ans = (left_contains(a.left, res.arg[1]) /\ right_contains(a.right, res.arg[1]))
    /\ {t \in (0 - 1)..4 : contains(to(at("Inclusive", 0), at("Exclusive", 3))[1], t)}
           = {0, 1, 2}
    /\ {t \in (0 - 1)..4 :
           contains(to(at("BoundType::Inclusive", 0), at("BoundType::Exclusive", 3))[1], t)}
           = {0, 1, 2}

\* C4 witness: contains was asked about the limit of a runtime Exclusive right bound.
C4_Witness_AskedAtExclusiveLimit ==
    /\ res.op = "contains"
    /\ a.right.bounding = "BoundType::Exclusive"
    /\ res.arg[1] = a.right.limit
    /\ ~res.ans

\* C5: overlaps(J) is true exactly when intersection(J) is Some.
C5_OverlapsIffIntersectionIsSome ==
    res.op = "overlaps" => (res.ans <=> intersection(a, b) # None)

\* C5 witness: overlaps answered false for two intervals that meet at one limit.
C5_Witness_TouchingDoNotOverlap ==
    /\ res.op = "overlaps"
    /\ ~res.ans
    /\ a.right.limit = b.left.limit

\* C6 (as claimed): I.includes(J) /\ J.includes(I) holds exactly when I == J,
\* runtime boundary kinds included.
C6_MutualIncludesIffEqual ==
    res.op = "includes" =>
        ((includes(a, b) /\ includes(b, a)) <=> interval_eq(a, b))

\* Every tested value that x contains, y contains too.
SubsetOf(x, y) == \A t \in Points : contains(x, t) => contains(y, t)

\* C7 (as claimed, the superset direction): I.includes(J) means I is a superset of
\* J: whenever I.includes(J), every t that J contains is contained in I.
C7_IncludesIsSuperset ==
    res.op = "includes" => (res.ans => SubsetOf(b, a))

\* C8: intersection is the set intersection: Some(K) contains t exactly when both
\* arguments do; None means no t is in both. [0,3) /\ [1,4) = [1,3), [0,3) /\ [3,5) = None.
C8_IntersectionIsSetIntersection ==
    /\ res.op = "intersection" =>
         IF res.out # None
         THEN \A t \in Points : contains(res.out[1], t) <=> (contains(a, t) /\ contains(b, t))
         ELSE \A t \in Points : ~(contains(a, t) /\ contains(b, t))
    /\ intersection(to(at("Inclusive", 0), at("Exclusive", 3))[1],
                    to(at("Inclusive", 1), at("Exclusive", 4))[1])
           = to(at("Inclusive", 1), at("Exclusive", 3))
    /\ intersection(to(at("Inclusive", 0), at("Exclusive", 3))[1],
                    to(at("Inclusive", 3), at("Exclusive", 5))[1])
           = None

\* C8 witness: an intersection that is neither argument.
C8_Witness_ProperIntersection ==
    /\ res.op = "intersection"
    /\ res.out # None
    /\ res.out[1] # a
    /\ res.out[1] # b

\* C9 (as claimed): enclosure contains every t of either argument, includes both
\* arguments, and every interval of the same type that contains every point of both
\* arguments contains every point of the enclosure.
C9_EnclosureIsSmallest ==
    res.op = "enclosure" =>
        LET e == res.out[1]
        IN  /\ SubsetOf(a, e) /\ SubsetOf(b, e)
            /\ includes(e, a) /\ includes(e, b)
            /\ \A k \in Accepted :
                 (SameType(k, a) /\ SubsetOf(a, k) /\ SubsetOf(b, k)) => SubsetOf(e, k)

\* Two intervals share an endpoint limit at which at least one of the two meeting
\* bounds is Inclusive.
Touch(x, y) ==
    \/ /\ x.right.limit = y.left.limit
       /\ IsInclusive(x.right.bounding) \/ IsInclusive(y.left.bounding)
    \/ /\ y.right.limit = x.left.limit
       /\ IsInclusive(y.right.bounding) \/ IsInclusive(x.left.bounding)

\* x lies to the left of y: x ends no later than y begins.
LeftHand(x, y) == x.right.limit <= y.left.limit

\* C10: gap is None when the intervals overlap or touch and Some otherwise, whichever
\* lies to the left; Some(G) runs from the flipped right bound of the left-hand
\* interval to the flipped left bound of the right-hand one. [0,3) gap [5,8) = [3,5).
C10_GapBetweenDisjointIntervals ==
    /\ res.op = "gap" =>
         IF overlaps(a, b) \/ Touch(a, b)
         THEN res.out = None
         ELSE /\ Len(res.out) = 1
              /\ LeftHand(a, b) \/ LeftHand(b, a)
              /\ LeftHand(a, b) =>
                   res.out[1] = [left |-> half_flip(a.right), right |-> half_flip(b.left)]
              /\ LeftHand(b, a) =>
                   res.out[1] = [left |-> half_flip(b.right), right |-> half_flip(a.left)]
    /\ gap(to(at("Inclusive", 0), at("Exclusive", 3))[1],
           to(at("Inclusive", 5), at("Exclusive", 8))[1])
           = to(at("Inclusive", 3), at("Exclusive", 5))

\* C10 witness: a gap was found with the second argument on the left.
C10_Witness_GapWithArgumentsReversed ==
    /\ res.op = "gap"
    /\ res.out # None
    /\ b.right.limit < a.left.limit

\* Two intervals share a point of the domain.
SharePoint(x, y) == \E t \in Points : contains(x, t) /\ contains(y, t)

\* C11: when a.gap(b) is Some(G) and G has the type of the inputs (always so for
\* the runtime kinds), G overlaps neither a nor b, no point lies in G and in
\* one of them, and a.enclosure(b) == a.enclosure(G).enclosure(b).
C11_GapFillsTheEnclosure ==
    (res.op = "gap" /\ res.out # None /\ SameType(res.out[1], a)) =>
        LET G == res.out[1]
        IN  /\ ~overlaps(G, a) /\ ~overlaps(a, G)
            /\ ~overlaps(G, b) /\ ~overlaps(b, G)
            /\ ~SharePoint(G, a)
            /\ ~SharePoint(G, b)
            /\ interval_eq(enclosure(a, b), enclosure(enclosure(a, G), b))

C11_Witness_RuntimeGapOfOnePoint ==
    /\ res.op = "gap"
    /\ res.out # None
    /\ IsEnum(a.left.bounding)
    /\ res.out[1].left.limit = res.out[1].right.limit
    /\ contains(res.out[1], res.out[1].left.limit)

\* The input that lies to the left when the two are separated by a gap.
LeftHandInput(x, y) == IF LeftHand(x, y) THEN x ELSE y

RightHandInput(x, y) == IF LeftHand(x, y) THEN y ELSE x

\* C12: a.union(b) carries enclosure == a.enclosure(b) and gap == a.gap(b);
\* iterating it yields, when there is a gap, exactly the two inputs with the
\* left-hand one first whatever the argument order, and otherwise exactly one
\* interval, the enclosure.
C12_UnionYieldsInputsOrEnclosure ==
    res.op = "union" =>
        /\ res.arg[1].enclosure = enclosure(a, b)
        /\ res.arg[1].gap = gap(a, b)
        /\ IF gap(a, b) # None
           THEN res.out = <<LeftHandInput(a, b), RightHandInput(a, b)>>
           ELSE res.out = <<enclosure(a, b)>>

C12_Witness_ReversedArgumentsYieldLeftHandFirst ==
    /\ res.op = "union"
    /\ Len(res.out) = 2
    /\ b.right.limit < a.left.limit
    /\ res.out[1] = b
    /\ res.out[2] = a

\* C13: a.intersection(a) == Some(a) and a.enclosure(a) == a.
C13_IntersectionAndEnclosureAreIdempotent ==
    /\ (res.op = "intersection" /\ interval_eq(a, b)) =>
           (res.out # None /\ interval_eq(res.out[1], a))
    /\ (res.op = "enclosure" /\ interval_eq(a, b)) =>
           interval_eq(res.out[1], a)

C13_Witness_EnclosureOfOpenIntervalWithItself ==
    /\ res.op = "enclosure"
    /\ interval_eq(a, b)
    /\ a.left.bounding = "BoundType::Exclusive"
    /\ a.right.bounding = "BoundType::Exclusive"

\* C14: for every valid integer interval, of any boundary kinds, the interval
\* contains its own minimum() and its own maximum().
C14_ContainsItsMinimumAndMaximum ==
    /\ res.op = "minimum" => contains(a, res.ans)
    /\ res.op = "maximum" => contains(a, res.ans)

\* The intervals [4,7], (4,7] and [4,7) of a static or runtime kind.
Example_4_7(inc, exc) ==
    [closed |-> [left |-> at(inc, 4), right |-> at(inc, 7)],
     left_open |-> [left |-> at(exc, 4), right |-> at(inc, 7)],
     right_open |-> [left |-> at(inc, 4), right |-> at(exc, 7)]]

\* C15: minimum() is the left limit when the left bound is Inclusive and the
\* limit + 1 when it is Exclusive; maximum() is the right limit when the right
\* bound is Inclusive and the limit - 1 when it is Exclusive; the runtime kind
\* gives the values of the static kind. [4,7] has min 4 and max 7, (4,7] has
\* min 5, [4,7) has max 6.
C15_MinimumAndMaximumValues ==
    /\ res.op = "minimum" =>
           res.ans = IF IsInclusive(a.left.bounding) THEN a.left.limit
                     ELSE a.left.limit + 1
    /\ res.op = "maximum" =>
           res.ans = IF IsInclusive(a.right.bounding) THEN a.right.limit
                     ELSE a.right.limit - 1
    /\ \A e \in {Example_4_7("Inclusive", "Exclusive"),
                 Example_4_7("BoundType::Inclusive", "BoundType::Exclusive")} :
           /\ min(e.closed) = 4 /\ max(e.closed) = 7
           /\ min(e.left_open) = 5 /\ max(e.left_open) = 7
           /\ min(e.right_open) = 4 /\ max(e.right_open) = 6

C15_Witness_MinimumOfRuntimeExclusive ==
    /\ res.op = "minimum"
    /\ a.left.bounding = "BoundType::Exclusive"
    /\ res.ans = a.left.limit + 1

\* The elements of a sequence.
Range(seq) == {seq[i] : i \in DOMAIN seq}

\* C16: iterating an integer interval yields, ascending and without repetition,
\* exactly the integers the interval contains, which are the integers from
\* minimum() to maximum(); (0,10] yields exactly 1..10, for the static and the
\* runtime kinds.
C16_IterationYieldsTheContainedIntegers ==
    /\ res.op = "into_iter" =>
           /\ \A i \in 1..(Len(res.ans) - 1) : res.ans[i] < res.ans[i + 1]
           /\ Range(res.ans) = {t \in Points : contains(a, t)}
           /\ Range(res.ans) = minimum(a)..maximum(a)
    /\ \A k \in {<<"Exclusive", "Inclusive">>,
                 <<"BoundType::Exclusive", "BoundType::Inclusive">>} :
           interval_into_iter([left |-> at(k[1], 0), right |-> at(k[2], 10)])
               = <<1, 2, 3, 4, 5, 6, 7, 8, 9, 10>>

C16_Witness_IteratedHalfOpenInterval ==
    /\ res.op = "into_iter"
    /\ ~IsInclusive(a.left.bounding)
    /\ IsInclusive(a.right.bounding)
    /\ Len(res.ans) = 2

\* The least and the greatest element of a non-empty set of integers.
Least(S) == CHOOSE m \in S : \A n \in S : m <= n

Greatest(S) == CHOOSE m \in S : \A n \in S : n <= m

\* C17: enclosure_of_items is None for the empty sequence and otherwise the
\* closed interval from the least item to the greatest item, whatever the order
\* of the items; [3, 9, 2, 5] gives min 2 and max 9.
C17_EnclosureOfItemsSpansLeastToGreatest ==
    /\ res.op = "enclosure_of_items" =>
           IF Len(res.arg) = 0 THEN res.out = None
           ELSE res.out = Some([left |-> at("Inclusive", Least(Range(res.arg))),
                                right |-> at("Inclusive", Greatest(Range(res.arg)))])
    /\ LET e == enclosure_of_items(<<3, 9, 2, 5>>)
       IN  e # None /\ min(e[1]) = 2 /\ max(e[1]) = 9

C17_Witness_ItemsInDescendingOrder ==
    /\ res.op = "enclosure_of_items"
    /\ Len(res.arg) = 2
    /\ res.arg[1] > res.arg[2]
    /\ res.out # None

\* C18: half-bounds are ordered by limit first and the kind decides only between
\* equal limits: of two runtime left bounds at the same limit the Inclusive one
\* is strictly less than the Exclusive one, of two runtime right bounds the
\* Inclusive one is strictly greater.
C18_OrderingByLimitThenKind ==
    res.op = "cmp" =>
        LET side == res.arg[1]
            x == res.arg[2]
            y == res.arg[3]
            less_at_tie == IF side = "Left" THEN IsInclusive(x.bounding)
                           ELSE IsInclusive(y.bounding)
        IN  /\ x.limit < y.limit => res.ans = 0 - 1
            /\ x.limit > y.limit => res.ans = 1
            /\ (x.limit = y.limit /\ x.bounding = y.bounding) => res.ans = 0
            /\ (x.limit = y.limit /\ x.bounding # y.bounding) =>
                   res.ans = IF less_at_tie THEN 0 - 1 ELSE 1

C18_Witness_RightInclusiveAfterExclusive ==
    /\ res.op = "cmp"
    /\ res.arg[1] = "Right"
    /\ res.arg[2].limit = res.arg[3].limit
    /\ res.arg[2].bounding = "BoundType::Inclusive"
    /\ res.arg[3].bounding = "BoundType::Exclusive"
    /\ res.ans = 1

\* C19: one flip keeps the limit, turns Inclusive into Exclusive and back
\* (within the static or the runtime kinds) and turns Left into Right and back;
\* flipping twice gives the original kind, bound and half-bounded value.
C19_FlipIsAnInvolution ==
    /\ \A k \in Boundings :
           /\ flip_bounding(flip_bounding(k)) = k
           /\ IsInclusive(flip_bounding(k)) # IsInclusive(k)
           /\ IsEnum(flip_bounding(k)) = IsEnum(k)
    /\ res.op = "flip" =>
           LET side == res.arg[1]
               h == res.arg[2]
               f == res.ans
           IN  /\ f.bound.limit = h.limit
               /\ IsInclusive(f.bound.bounding) # IsInclusive(h.bounding)
               /\ IsEnum(f.bound.bounding) = IsEnum(h.bounding)
               /\ f.side = (IF side = "Left" THEN "Right" ELSE "Left")
               /\ half_flip(f.bound) = h
               /\ flip_side(f.side) = side

C19_Witness_FlippedRuntimeExclusiveRight ==
    /\ res.op = "flip"
    /\ res.arg[1] = "Right"
    /\ res.arg[2].bounding = "BoundType::Exclusive"
    /\ res.ans.side = "Left"
    /\ res.ans.bound.bounding = "BoundType::Inclusive"

\* C20: the flip of a half-bounded value is its complement: for every half h
\* (left or right, Inclusive or Exclusive, static or runtime) and every t,
\* h.flip().contains(t) is true exactly when h.contains(t) is false.
C20_FlipIsTheComplement ==
    res.op = "flip" =>
        \A t \in Points :
            half_contains(res.ans.side, res.ans.bound, t)
                = ~half_contains(res.arg[1], res.arg[2], t)

C20_Witness_FlippedLeftInclusive ==
    /\ res.op = "flip"
    /\ res.arg[1] = "Left"
    /\ IsInclusive(res.arg[2].bounding)
    /\ half_contains("Left", res.arg[2], res.arg[2].limit)
    /\ ~half_contains(res.ans.side, res.ans.bound, res.arg[2].limit)

\* The greater and the lesser of two scalars.
MaxOf(s, t) == IF s < t THEN t ELSE s

MinOf(s, t) == IF s < t THEN s ELSE t

\* C21: the intersection of two half-bounds of one side contains t exactly when
\* both contain t, and their union exactly when one of them does; the
\* intersection has the greater limit on the left side and the lesser on the
\* right side, the union the opposite; between equal limits of different kinds
\* the intersection is the Exclusive bound and the union the Inclusive one.
C21_HalfIntersectionAndUnionAreSetOperations ==
    /\ res.op = "half_intersection" =>
           LET side == res.arg[1]
               x == res.arg[2]
               y == res.arg[3]
           IN  /\ \A t \in Points :
                      half_contains(side, res.ans, t)
                          = (half_contains(side, x, t) /\ half_contains(side, y, t))
               /\ res.ans.limit = IF side = "Left" THEN MaxOf(x.limit, y.limit)
                                  ELSE MinOf(x.limit, y.limit)
               /\ (x.limit = y.limit /\ x.bounding # y.bounding) =>
                      ~IsInclusive(res.ans.bounding)
    /\ res.op = "half_union" =>
           LET side == res.arg[1]
               x == res.arg[2]
               y == res.arg[3]
           IN  /\ \A t \in Points :
                      half_contains(side, res.ans, t)
                          = (half_contains(side, x, t) \/ half_contains(side, y, t))
               /\ res.ans.limit = IF side = "Left" THEN MinOf(x.limit, y.limit)
                                  ELSE MaxOf(x.limit, y.limit)
               /\ (x.limit = y.limit /\ x.bounding # y.bounding) =>
                      IsInclusive(res.ans.bounding)

C21_Witness_RightUnionAtATie ==
    /\ res.op = "half_union"
    /\ res.arg[1] = "Right"
    /\ res.arg[2].limit = res.arg[3].limit
    /\ res.arg[2].bounding = "BoundType::Exclusive"
    /\ res.arg[3].bounding = "BoundType::Inclusive"
    /\ res.ans.bounding = "BoundType::Inclusive"

\* The std::ops::Bound variant that stands for a boundary kind.
BoundVariant(bounding) == IF IsInclusive(bounding) THEN "Included" ELSE "Excluded"

\* C22: the range-bounds view of an interval has start_bound Included(inf) for
\* an Inclusive left bound and Excluded(inf) for an Exclusive one, end_bound
\* Included(sup) / Excluded(sup) likewise, and a value t lies within
\* (start_bound, end_bound) exactly when the interval contains t.
C22_RangeBoundsAgreeWithContains ==
    res.op = "range_bounds" =>
        /\ res.ans.start = <<BoundVariant(a.left.bounding), a.left.limit>>
        /\ res.ans.end = <<BoundVariant(a.right.bounding), a.right.limit>>
        /\ \A t \in Points :
               range_contains(res.ans.start, res.ans.end, t) = contains(a, t)

\* C23: closure keeps both limits, makes both kinds Inclusive, is a valid
\* interval and contains every point of the original; interior keeps both
\* limits, makes both kinds Exclusive, and is None exactly when the left limit
\* equals the right limit.
C23_ClosureAndInterior ==
    /\ res.op = "closure" =>
           LET c == res.out[1]
           IN  /\ Len(res.out) = 1
               /\ c.left = at("Inclusive", a.left.limit)
               /\ c.right = at("Inclusive", a.right.limit)
               /\ IsValid(c)
               /\ SubsetOf(a, c)
               /\ SameType(c, a) => includes(c, a)
    /\ res.op = "interior" =>
           /\ (res.out = None) = (a.left.limit = a.right.limit)
           /\ res.out # None =>
                  /\ res.out[1].left = at("Exclusive", a.left.limit)
                  /\ res.out[1].right = at("Exclusive", a.right.limit)

C23_Witness_SinglePointHasNoInterior ==
    /\ res.op = "interior"
    /\ a.left.limit = a.right.limit
    /\ res.out = None

\* C24: try_new and float_new return the NaN error whenever the left or the
\* right limit is NaN, whatever the other limit is; when neither is NaN they
\* return Ok(None) for a pair that is not a valid interval and Ok(Some) of the
\* interval for a valid pair; no interval comes with an error.
C24_NanIsReportedBeforeEmptiness ==
    res.op \in {"try_new", "float_new"} =>
        LET left == res.arg[1]
            right == res.arg[2]
            l == at(left.bounding, left.limit.val)
            r == at(right.bounding, right.limit.val)
        IN  /\ (left.limit.nan \/ right.limit.nan) =>
                   /\ ~res.ans.is_ok
                   /\ res.ans.err = "FloatIsNan"
            /\ ~res.ans.is_ok => (res.ans.val = None /\ res.out = None)
            /\ (~left.limit.nan /\ ~right.limit.nan) =>
                   /\ res.ans.is_ok
                   /\ res.ans.val = IF is_valid_interval(l, r)
                                    THEN Some([left |-> l, right |-> r]) ELSE None

C24_Witness_NanRightAfterGoodLeft ==
    /\ res.op = "try_new"
    /\ ~res.arg[1].limit.nan
    /\ res.arg[2].limit.nan
    /\ ~res.ans.is_ok

\* The two constructions Interval::gap tries, in its order.
GapOrientations(x, y) ==
    <<new_(half_flip(x.right), half_flip(y.left)), new_(half_flip(y.right), half_flip(x.left))>>

\* C25: of the two constructions of a gap (a.right flipped to b.left flipped,
\* b.right flipped to a.left flipped) at most one is a valid interval, and
\* a.gap(b) == b.gap(a).
C25_GapIsSymmetric ==
    res.op = "gap" =>
        /\ GapOrientations(a, b)[1] = None \/ GapOrientations(a, b)[2] = None
        /\ res.out \in {GapOrientations(a, b)[1], GapOrientations(a, b)[2]}
        /\ res.out = gap(b, a)

C25_Witness_GapFromSecondOrientation ==
    /\ res.op = "gap"
    /\ res.out # None
    /\ GapOrientations(a, b)[1] = None
    /\ res.out = GapOrientations(a, b)[2]
    /\ gap(b, a) = GapOrientations(b, a)[1]

\* C26: over the bounded integer type, minimum() and maximum() of a valid
\* interval never overflow: an Exclusive left limit is strictly below the right
\* limit and an Exclusive right limit strictly above the left limit, so
\* limit + 1 and limit - 1 stay within the type and are the values returned.
C26_MinimumAndMaximumDoNotOverflow ==
    /\ ~IsInclusive(a.left.bounding) => a.left.limit < a.right.limit
    /\ ~IsInclusive(a.right.bounding) => a.left.limit < a.right.limit
    /\ res.op = "minimum" =>
           LET exact == IF IsInclusive(a.left.bounding) THEN a.left.limit
                        ELSE a.left.limit + 1
           IN  exact \in IntMin..IntMax /\ res.ans = exact
    /\ res.op = "maximum" =>
           LET exact == IF IsInclusive(a.right.bounding) THEN a.right.limit
                        ELSE a.right.limit - 1
           IN  exact \in IntMin..IntMax /\ res.ans = exact

C26_Witness_MinimumIsTheLargestInteger ==
    /\ res.op = "minimum"
    /\ ~IsInclusive(a.left.bounding)
    /\ a.left.limit = IntMax - 1
    /\ a.right.limit = IntMax
    /\ res.ans = IntMax

====
